---- MODULE Spec2Model ----
(***************************************************************************)
(* Model of the transcriber service's batch tool, transcribe_file          *)
(* (src/transcriber/__main__.py), together with the per-file step          *)
(* transcribe_audiofile (lib/transcribe.py), the service call              *)
(* AssemblyAIService.transcribe_audio (service/assemblyai.py) and          *)
(* validate_audio_file (utils/file_utils.py).                              *)
(*                                                                         *)
(* File names are sequences of tokens ("a", ".", "mp3"), so that the glob  *)
(* patterns the code formats and the suffix checks it computes are         *)
(* evaluated on the names, as pathlib and fnmatch evaluate them.           *)
(***************************************************************************)
EXTENDS Integers, Sequences, FiniteSets, TLC

VARIABLES
    path_kind,            \* what input_path is: "dir", "file" or "missing"
    listing,              \* entries of the directory, in scan order
    recursive,            \* the recursive argument
    language_code,        \* the language_code argument
    json,                 \* content of <dir>/transcript.json, per directory
    pc,                   \* position of transcribe_file
    files_to_process,     \* the located paths
    tasks,                \* one transcribe_audiofile coroutine per located path
    transcription_results,\* what asyncio.gather returned
    idx,                  \* position of the aggregation loop
    overall_status,
    results,              \* the data list being built
    ret,                  \* the value transcribe_file returned
    log,                  \* service calls and opens for writing, in order
    call                  \* a direct call of a companion operation (from_file,
                          \* read_transcript, transcribe_audio), when one is made

vars == <<path_kind, listing, recursive, language_code, json, pc,
          files_to_process, tasks, transcription_results, idx,
          overall_status, results, ret, log, call>>

---------------------------------------------------------------------------
(* Bounds *)

MaxEntries == 2

MaxWords == 2

---------------------------------------------------------------------------
(* config/config.py *)

SUPPORTED_FORMATS ==
    << <<".", "mp3">>, <<".", "mp4">>, <<".", "wav">>, <<".", "ogg">>,
       <<".", "flac">>, <<".", "m4a">>, <<".", "webm">> >>

DEFAULT_LANGUAGE == "en"

SUPPORTED_LANGUAGES ==
    {"en", "es", "fr", "de", "it", "pt", "nl", "ja", "ko", "zh", "ru"}

---------------------------------------------------------------------------
(* Strings *)

SeqRange(s) == {s[i] : i \in 1..Len(s)}

\* str.lower() on one token
LowerTok(t) ==
    CASE t = "MP3" -> "mp3"
      [] t = "WAV" -> "wav"
      [] t = "D"   -> "d"
      [] OTHER     -> t

Lower(s) == [i \in 1..Len(s) |-> LowerTok(s[i])]

\* str.lstrip(".")
RECURSIVE LStripDot(_)
LStripDot(s) ==
    IF s # <<>> /\ Head(s) = "." THEN LStripDot(Tail(s)) ELSE s

EndsWith(s, suffix) ==
    /\ Len(suffix) <= Len(s)
    /\ SubSeq(s, Len(s) - Len(suffix) + 1, Len(s)) = suffix

\* PurePath.suffix and os.path.splitext(...)[1]: from the last dot on; empty
\* when there is no dot, or when only leading dots precede the rest
Suffix(name) ==
    LET dots == {i \in 1..Len(name) : name[i] = "."}
        last == CHOOSE i \in dots : \A j \in dots : j <= i
    IN  IF dots = {} THEN <<>>
        ELSE IF \A j \in 1..(last - 1) : name[j] = "." THEN <<>>
        ELSE IF last = Len(name) THEN <<>>
        ELSE SubSeq(name, last, Len(name))

---------------------------------------------------------------------------
(* The file system the tool runs on *)

Dirs == {"d", "s"}      \* the directory of input_path and one subdirectory

File(name, sub) == [name |-> name, isdir |-> FALSE, sub |-> sub]
Dir(name)       == [name |-> name, isdir |-> TRUE,  sub |-> FALSE]

EntryUniverse ==
    { File(<<"a", ".", "mp3">>, FALSE),
      File(<<"b", ".", ".", "mp3">>, FALSE),
      File(<<"c", ".", "wav">>, FALSE),
      File(<<"D", ".", "MP3">>, FALSE),
      File(<<"e", ".", "txt">>, FALSE),
      File(<<"f", ".", "mp3">>, TRUE),
      Dir(<<"g", ".", "mp3">>) }

Listings ==
    UNION { { s \in [1..n -> EntryUniverse] :
                \A i, j \in 1..n : i # j => s[i] # s[j] } : n \in 0..MaxEntries }

PathOf(e) == [parent |-> IF e.sub THEN "s" ELSE "d", name |-> e.name]

NoPath == [parent |-> "", name |-> <<>>]

Absent    == [state |-> "absent", of |-> NoPath]
Old       == [state |-> "old",    of |-> NoPath]
Truncated == [state |-> "empty",  of |-> NoPath]
Written(p) == [state |-> "full",  of |-> p]

\* os.path.isfile
IsFile(p) ==
    \E i \in 1..Len(listing) : PathOf(listing[i]) = p /\ ~listing[i].isdir

Exists(p) ==
    \E i \in 1..Len(listing) : PathOf(listing[i]) = p

\* Path.is_dir / Path.is_file of input_path
InputIsDir  == path_kind = "dir"
InputIsFile == path_kind = "file"

\* the path input_path names when it is a single file
InputFile == PathOf(listing[1])

---------------------------------------------------------------------------
(* pathlib globbing *)

\* fnmatch of a "*<literal>" pattern against one name (case-sensitive)
GlobMatch(pattern, name) ==
    /\ pattern # <<>>
    /\ Head(pattern) = "*"
    /\ EndsWith(name, Tail(pattern))

Matches(pattern, subtree) ==
    LET hit(e) == GlobMatch(pattern, e.name) /\ (subtree \/ ~e.sub)
        sel    == SelectSeq(listing, hit)
    IN  [i \in 1..Len(sel) |-> PathOf(sel[i])]

\* Path.glob: a leading "**/" searches the whole subtree, else direct children
Glob(pattern) ==
    IF pattern # <<>> /\ Head(pattern) = "**/"
    THEN Matches(Tail(pattern), TRUE)
    ELSE Matches(pattern, FALSE)

\* Path.rglob(p) is glob("**/" + p)
RGlob(pattern) == Glob(<<"**/">> \o pattern)

---------------------------------------------------------------------------
(* transcribe_file: locating the files *)

\* [fmt for fmt in SUPPORTED_FORMATS if fmt != "mp3"]
other_formats == SelectSeq(SUPPORTED_FORMATS, LAMBDA fmt : fmt # <<"mp3">>)

\* f"*.{format}", then f"**/{pattern}" when recursive
patterns(rec) ==
    [i \in 1..Len(other_formats) |->
        IF rec THEN <<"**/", "*", ".">> \o other_formats[i]
               ELSE <<"*", ".">> \o other_formats[i]]

RECURSIVE ExtendAll(_, _)
ExtendAll(ps, k) ==
    IF k > Len(ps) THEN <<>> ELSE Glob(ps[k]) \o ExtendAll(ps, k + 1)

LocateInDir(rec) ==
    (IF rec THEN RGlob(<<"*", ".", "mp3">>) ELSE Glob(<<"*", ".", "mp3">>))
        \o ExtendAll(patterns(rec), 1)

\* path_obj.suffix.lstrip(".").lower() not in SUPPORTED_FORMATS
SingleFileRejected(p) ==
    Lower(LStripDot(Suffix(p.name))) \notin SeqRange(SUPPORTED_FORMATS)

---------------------------------------------------------------------------
(* Values *)

NoRet == [status |-> "none", message |-> "", data |-> <<>>]

NoSvc    == [kind |-> "none", val |-> "", remote |-> FALSE, lang |-> ""]
NoResult == [kind |-> "none", result |-> "", text |-> ""]

NewTask == [pc |-> "pending", svc |-> NoSvc, result |-> NoResult]

\* a call that passes the default language instead of the caller's
ServiceCall_default(p, lang) ==
    [ev |-> "service", file |-> p, lang |-> DEFAULT_LANGUAGE, dir |-> "",
     stage |-> ""]

ServiceCall(p, lang) ==
    [ev |-> "service", file |-> p, lang |-> lang, dir |-> "", stage |-> ""]
RemoteCall(p, lang) ==
    [ev |-> "remote", file |-> p, lang |-> lang, dir |-> "", stage |-> ""]
OpenForWrite(p, stage) ==
    [ev |-> "open", file |-> p, lang |-> "", dir |-> p.parent, stage |-> stage]

\* position i of the batch, as an event of the log
At(i, event) == [task |-> i, event |-> event]

Langs == {"en", "xx"}

NoCall == [op |-> "none"]

---------------------------------------------------------------------------
(* Init *)

TopFiles == {e \in EntryUniverse : ~e.isdir /\ ~e.sub}

Init ==
    /\ path_kind \in {"dir", "file", "missing"}
    /\ listing \in Listings
    /\ path_kind = "file" => Len(listing) = 1 /\ listing[1] \in TopFiles
    /\ path_kind = "missing" => listing = <<>>
    /\ recursive \in BOOLEAN
    /\ language_code \in Langs
    /\ json \in [Dirs -> {Absent, Old}]
    /\ pc = "start"
    /\ files_to_process = <<>>
    /\ tasks = <<>>
    /\ transcription_results = <<>>
    /\ idx = 0
    /\ overall_status = "success"
    /\ results = <<>>
    /\ ret = NoRet
    /\ log = <<>>
    /\ call = NoCall

\* what transcribe_file and its coroutines never assign
inputs == <<path_kind, listing, recursive, language_code, call>>

---------------------------------------------------------------------------
(* transcribe_file up to the gather *)

Dispatch(files) ==
    /\ files_to_process' = files
    /\ tasks' = [i \in 1..Len(files) |-> NewTask]
    /\ pc' = "gather"
    /\ ret' = ret

ReturnEarly(message, data) ==
    /\ ret' = [status |-> "failure", message |-> message, data |-> data]
    /\ pc' = "done"
    /\ UNCHANGED <<files_to_process, tasks>>

LocateDir ==
    /\ pc = "start"
    /\ InputIsDir
    /\ LET found == LocateInDir(recursive)
       IN  IF found = <<>>
           THEN ReturnEarly("No supported media files found in <input_path>", <<>>)
           ELSE Dispatch(found)
    /\ UNCHANGED <<inputs, json, transcription_results, idx, overall_status,
                   results, log>>

LocateFile ==
    /\ pc = "start"
    /\ ~InputIsDir
    /\ InputIsFile
    /\ IF SingleFileRejected(InputFile)
       THEN ReturnEarly("File <input_path> has an unsupported format.",
                        Lower(LStripDot(Suffix(InputFile.name))))
       ELSE Dispatch(<<InputFile>>)
    /\ UNCHANGED <<inputs, json, transcription_results, idx, overall_status,
                   results, log>>

InvalidPath ==
    /\ pc = "start"
    /\ ~InputIsDir
    /\ ~InputIsFile
    /\ ReturnEarly("Invalid input_path: <input_path> is neither a file nor a directory.",
                   <<>>)
    /\ UNCHANGED <<inputs, json, transcription_results, idx, overall_status,
                   results, log>>

---------------------------------------------------------------------------
(* utils/file_utils.py and service/assemblyai.py *)

\* what the environment does to one transcription attempt
Envs == {"ok", "unreadable", "ctor_raises", "remote_raises"}

\* a validation without the os.path.isfile test
validate_audio_file_noisfile(p, env) ==
    IF ~Exists(p) THEN <<FALSE, "Audio file not found">>
    ELSE IF Lower(Suffix(p.name)) \notin SeqRange(SUPPORTED_FORMATS)
         THEN <<FALSE, "Unsupported audio format">>
    ELSE IF env = "unreadable" THEN <<FALSE, "File is not readable">>
    ELSE <<TRUE, "">>

\* validate_audio_file: <<is_valid, error_message>>
validate_audio_file(p, env) ==
    IF ~Exists(p) THEN <<FALSE, "Audio file not found">>
    ELSE IF ~IsFile(p) THEN <<FALSE, "Path is not a file">>
    ELSE IF Lower(Suffix(p.name)) \notin SeqRange(SUPPORTED_FORMATS)
         THEN <<FALSE, "Unsupported audio format">>
    ELSE IF env = "unreadable" THEN <<FALSE, "File is not readable">>
    ELSE <<TRUE, "">>

\* AssemblyAIService.transcribe_audio: an error message (a str), a transcript,
\* or an exception when building the Transcriber raises outside the try
transcribe_audio(p, lang, env) ==
    LET v    == validate_audio_file(p, env)
        used == IF lang \in SUPPORTED_LANGUAGES THEN lang ELSE DEFAULT_LANGUAGE
    IN  IF ~v[1]
        THEN [kind |-> "str", val |-> v[2], remote |-> FALSE, lang |-> ""]
        ELSE IF env = "ctor_raises"
        THEN [kind |-> "raise", val |-> "Transcriber error", remote |-> FALSE,
              lang |-> used]
        ELSE IF env = "remote_raises"
        THEN [kind |-> "str", val |-> "Error transcribing file", remote |-> TRUE,
              lang |-> used]
        ELSE [kind |-> "transcript", val |-> "", remote |-> TRUE, lang |-> used]

---------------------------------------------------------------------------
(* lib/transcribe.py: transcribe_audiofile, one coroutine per located file *)

\* an event loop that only ever runs the first coroutine
Runnable_first(i) ==
    /\ pc = "gather"
    /\ i = 1
    /\ i \in 1..Len(tasks)

\* The coroutine holds no await: once the event loop starts it, it runs to
\* its return before the next one starts, in the order gather created them.
Runnable(i) ==
    /\ pc = "gather"
    /\ i \in 1..Len(tasks)
    /\ \A j \in 1..(i - 1) : tasks[j].pc = "done"

\* the call transcriber_service.transcribe_audio(audio_path, language_code)
StartTask(i) ==
    /\ Runnable(i)
    /\ tasks[i].pc = "pending"
    /\ tasks' = [tasks EXCEPT ![i].pc = "transcribing"]
    /\ log' = Append(log, At(i, ServiceCall(files_to_process[i], language_code)))
    /\ UNCHANGED <<inputs, json, pc, files_to_process, transcription_results,
                   idx, overall_status, results, ret>>

\* transcribe_audio returns or raises
ServiceReturns(i) ==
    /\ Runnable(i)
    /\ tasks[i].pc = "transcribing"
    /\ \E env \in Envs :
         LET r == transcribe_audio(files_to_process[i], language_code, env)
         IN  /\ tasks' = [tasks EXCEPT
                   ![i].svc = r,
                   ![i].pc = IF r.kind = "raise" THEN "done" ELSE "saving",
                   ![i].result = IF r.kind = "raise"
                                 THEN [kind |-> "Exception", result |-> "",
                                       text |-> r.val]
                                 ELSE NoResult]
             /\ log' = IF r.remote
                       THEN Append(log, At(i, RemoteCall(files_to_process[i], r.lang)))
                       ELSE log
    /\ UNCHANGED <<inputs, json, pc, files_to_process, transcription_results,
                   idx, overall_status, results, ret>>

\* what transcribe_audiofile returns: always a dict
TaskSuccess == [kind |-> "dict", result |-> "Success", text |-> ""]
TaskFailure(cause) == [kind |-> "dict", result |-> "Failure", text |-> cause]

\* the try block: build the Transcript, open the json file, dump
SaveTranscript(i) ==
    /\ Runnable(i)
    /\ tasks[i].pc = "saving"
    /\ LET p == files_to_process[i]
       IN  IF tasks[i].svc.kind # "transcript"
           THEN \* transcript.text on a str: AttributeError, caught
                /\ tasks' = [tasks EXCEPT ![i].pc = "done",
                               ![i].result = TaskFailure("no attribute text")]
                /\ UNCHANGED <<json, log>>
           ELSE \E open_ok \in BOOLEAN :
                  IF open_ok
                  THEN /\ json' = [json EXCEPT ![p.parent] = Written(p)]
                       /\ log' = Append(log, At(i, OpenForWrite(p, "task")))
                       /\ tasks' = [tasks EXCEPT ![i].pc = "done",
                                      ![i].result = TaskSuccess]
                  ELSE /\ tasks' = [tasks EXCEPT ![i].pc = "done",
                                      ![i].result = TaskFailure("OSError")]
                       /\ UNCHANGED <<json, log>>
    /\ UNCHANGED <<inputs, pc, files_to_process, transcription_results,
                   idx, overall_status, results, ret>>

---------------------------------------------------------------------------
(* transcribe_file: gather and aggregation *)

\* a gather whose exceptions are filtered out before the results are paired
Gathered_dropping(ts) ==
    SelectSeq([i \in 1..Len(ts) |-> ts[i].result],
              LAMBDA r : r.kind # "Exception")

\* asyncio.gather(*tasks, return_exceptions=True): the results in task order,
\* an exception standing in the place of the task that raised it
Gathered(ts) == [i \in 1..Len(ts) |-> ts[i].result]

GatherReturns ==
    /\ pc = "gather"
    /\ \A i \in 1..Len(tasks) : tasks[i].pc = "done"
    /\ transcription_results' = Gathered(tasks)
    /\ pc' = "aggregate"
    /\ idx' = 1
    /\ UNCHANGED <<inputs, json, files_to_process, tasks, overall_status,
                   results, ret, log>>

\* a type test no gathered exception passes
IsException_never(r) == FALSE

\* isinstance(result, Exception)
IsException(r) == r.kind = "Exception"

\* a duck-typing test every gathered result passes
HasModelDump_any(r) == TRUE

\* result.model_dump exists: only a Transcript object has it
HasModelDump(r) == r.kind = "Transcript"

Degrade(status) == IF status = "success" THEN "partial_success" ELSE status

FailureEntry(p, error) ==
    [file |-> p, status |-> "failure", error |-> error]
SuccessEntry(p, json_path) ==
    [file |-> p, status |-> "success", json_path |-> json_path]

\* f"Failed to write JSON to {json_output_path}: {e}"
WriteError(json_path, cause) ==
    <<"Failed to write JSON to ", json_path, ": ", cause>>

Message(status) ==
    IF status = "failure" THEN "Transcription failed for all files."
    ELSE IF status = "success" THEN "Transcription complete."
    ELSE "Transcription complete with some failures."

\* the status, the entry and the json content one (file, result) pair yields;
\* open_ok is whether open(json_output_path, "w") succeeds
AggregateOne(p, r, open_ok, status, content) ==
    IF IsException(r)
    THEN [status |-> Degrade(status), entry |-> FailureEntry(p, <<r.text>>),
          content |-> content, opened |-> FALSE]
    ELSE IF ~open_ok
    THEN [status |-> Degrade(status),
          entry |-> FailureEntry(p, WriteError(p.parent, "OSError")),
          content |-> content, opened |-> FALSE]
    ELSE IF ~HasModelDump(r)
    THEN [status |-> Degrade(status),
          entry |-> FailureEntry(p, WriteError(p.parent, "no attribute model_dump")),
          content |-> Truncated, opened |-> TRUE]
    ELSE [status |-> status, entry |-> SuccessEntry(p, p.parent),
          content |-> Written(p), opened |-> TRUE]

\* zip stops at the shorter of its arguments
ZipLen(a, b) == IF Len(a) <= Len(b) THEN Len(a) ELSE Len(b)

\* one iteration of the loop over zip(files_to_process, transcription_results);
\* the last one runs on to the return statement
Aggregate ==
    /\ pc = "aggregate"
    /\ idx \in 1..ZipLen(files_to_process, transcription_results)
    /\ \E open_ok \in BOOLEAN :
         LET p == files_to_process[idx]
             a == AggregateOne(p, transcription_results[idx], open_ok,
                               overall_status, json[p.parent])
         IN  /\ overall_status' = a.status
             /\ results' = Append(results, a.entry)
             /\ json' = [json EXCEPT ![p.parent] = a.content]
             /\ log' = IF a.opened
                       THEN Append(log, At(idx, OpenForWrite(p, "aggregate")))
                       ELSE log
             /\ IF idx = ZipLen(files_to_process, transcription_results)
                THEN /\ pc' = "done"
                     /\ ret' = [status |-> a.status,
                                message |-> Message(a.status),
                                data |-> Append(results, a.entry)]
                ELSE UNCHANGED <<pc, ret>>
    /\ idx' = idx + 1
    /\ UNCHANGED <<inputs, files_to_process, tasks, transcription_results>>

---------------------------------------------------------------------------

Next ==
    \/ LocateDir
    \/ LocateFile
    \/ InvalidPath
    \/ \E i \in 1..(2 * MaxEntries) : StartTask(i)
    \/ \E i \in 1..(2 * MaxEntries) : ServiceReturns(i)
    \/ \E i \in 1..(2 * MaxEntries) : SaveTranscript(i)
    \/ GatherReturns
    \/ Aggregate

Spec == Init /\ [][Next]_vars

\* Every step of the run is eventually taken: the event loop keeps running
\* the coroutines and every transcribe_audio call returns or raises.
FairSpec == Spec /\ WF_vars(Next)

---------------------------------------------------------------------------
(* models/transcript.py: Word and Transcript *)

None    == [some |-> FALSE, v |-> ""]
Some(x) == [some |-> TRUE, v |-> x]

\* confidence is kept in tenths (9 is 0.9)
NewWord(text, start, end, confidence, speaker, channel) ==
    [text |-> text, start |-> start, end |-> end, confidence |-> confidence,
     speaker |-> speaker, channel |-> channel]

NewTranscript(text, words) == [text |-> text, words |-> words]

WordUniverse ==
    { NewWord("hello", 0, 500, 9, None, None),
      NewWord("world", 500, 1200, 10, Some("A"), None),
      NewWord("um", 1200, 1200, 0, None, Some("1")),
      NewWord("", 37, 64, 5, Some("B"), Some("2")) }

Transcripts ==
    { NewTranscript(text, words) :
        text \in {"hello world", ""},
        words \in UNION { [1..n -> WordUniverse] : n \in 0..MaxWords } }

---------------------------------------------------------------------------
(* Python values as json sees them, and the json text *)

JNull      == [t |-> "null",  s |-> "", n |-> 0, keys |-> <<>>, items |-> <<>>]
JStr(x)    == [t |-> "str",   s |-> x,  n |-> 0, keys |-> <<>>, items |-> <<>>]
JInt(x)    == [t |-> "int",   s |-> "", n |-> x, keys |-> <<>>, items |-> <<>>]
JFloat(x)  == [t |-> "float", s |-> "", n |-> x, keys |-> <<>>, items |-> <<>>]
JList(xs)  == [t |-> "list",  s |-> "", n |-> 0, keys |-> <<>>, items |-> xs]
JDict(ks, xs) ==
              [t |-> "dict",  s |-> "", n |-> 0, keys |-> ks,  items |-> xs]

HasKey(d, k) == d.t = "dict" /\ \E i \in 1..Len(d.keys) : d.keys[i] = k
Get(d, k)    == d.items[CHOOSE i \in 1..Len(d.keys) : d.keys[i] = k]

OptToJson(o) == IF o.some THEN JStr(o.v) ELSE JNull

\* Word.model_dump()
WordModelDump(w) ==
    JDict(<<"text", "start", "end", "confidence", "speaker", "channel">>,
          <<JStr(w.text), JInt(w.start), JInt(w.end), JFloat(w.confidence),
            OptToJson(w.speaker), OptToJson(w.channel)>>)

\* Transcript.model_dump()
TranscriptModelDump(tr) ==
    JDict(<<"text", "words">>,
          <<JStr(tr.text),
            JList([i \in 1..Len(tr.words) |-> WordModelDump(tr.words[i])])>>)

\* tokens of the json text; a number is its sequence of characters
Punct(c)   == [k |-> "punct",  s |-> c, d |-> <<>>]
StrTok(x)  == [k |-> "string", s |-> x, d |-> <<>>]
NumTok(ds) == [k |-> "number", s |-> "", d |-> ds]

Digits == <<"0", "1", "2", "3", "4", "5", "6", "7", "8", "9">>

DigitValue(c) == (CHOOSE i \in 1..10 : Digits[i] = c) - 1

\* repr of a non-negative int
RECURSIVE FormatInt(_)
FormatInt(n) ==
    IF n < 10 THEN <<Digits[n + 1]>>
    ELSE Append(FormatInt(n \div 10), Digits[(n % 10) + 1])

\* repr of a float with one decimal, kept in tenths
FormatFloat(n) == FormatInt(n \div 10) \o <<".", Digits[(n % 10) + 1]>>

RECURSIVE ParseInt(_)
ParseInt(ds) ==
    IF ds = <<>> THEN 0
    ELSE ParseInt(SubSeq(ds, 1, Len(ds) - 1)) * 10 + DigitValue(ds[Len(ds)])

\* json.dump: the text of a value
RECURSIVE JsonDump(_)
RECURSIVE DumpItems(_, _)
DumpItems(v, i) ==
    IF i > Len(v.items) THEN <<>>
    ELSE (IF i > 1 THEN <<Punct(",")>> ELSE <<>>)
         \o (IF v.t = "dict" THEN <<StrTok(v.keys[i]), Punct(":")>> ELSE <<>>)
         \o JsonDump(v.items[i])
         \o DumpItems(v, i + 1)

JsonDump(v) ==
    CASE v.t = "null"  -> <<Punct("null")>>
      [] v.t = "str"   -> <<StrTok(v.s)>>
      [] v.t = "int"   -> <<NumTok(FormatInt(v.n))>>
      [] v.t = "float" -> <<NumTok(FormatFloat(v.n))>>
      [] v.t = "list"  -> <<Punct("[")>> \o DumpItems(v, 1) \o <<Punct("]")>>
      [] v.t = "dict"  -> <<Punct("{")>> \o DumpItems(v, 1) \o <<Punct("}")>>

\* json.load of a well-formed text: the value and the tokens after it
RECURSIVE JsonParse(_)
RECURSIVE ParseElements(_, _)
RECURSIVE ParseMembers(_, _, _)
ParseElements(toks, acc) ==
    IF Head(toks) = Punct("]") THEN [v |-> JList(acc), rest |-> Tail(toks)]
    ELSE LET from == IF Head(toks) = Punct(",") THEN Tail(toks) ELSE toks
             one  == JsonParse(from)
         IN  ParseElements(one.rest, Append(acc, one.v))

ParseMembers(toks, ks, acc) ==
    IF Head(toks) = Punct("}") THEN [v |-> JDict(ks, acc), rest |-> Tail(toks)]
    ELSE LET from == IF Head(toks) = Punct(",") THEN Tail(toks) ELSE toks
             one  == JsonParse(Tail(Tail(from)))
         IN  ParseMembers(one.rest, Append(ks, Head(from).s), Append(acc, one.v))

JsonParse(toks) ==
    LET h == Head(toks)
    IN  CASE h.k = "string" -> [v |-> JStr(h.s), rest |-> Tail(toks)]
          [] h.k = "number" ->
               LET dot == {i \in 1..Len(h.d) : h.d[i] = "."}
               IN  IF dot = {}
                   THEN [v |-> JInt(ParseInt(h.d)), rest |-> Tail(toks)]
                   ELSE LET at == CHOOSE i \in dot : TRUE
                        IN  [v |-> JFloat(ParseInt(SubSeq(h.d, 1, at - 1)) * 10
                                          + ParseInt(SubSeq(h.d, at + 1, Len(h.d)))),
                             rest |-> Tail(toks)]
          [] h = Punct("null") -> [v |-> JNull, rest |-> Tail(toks)]
          [] h = Punct("[") -> ParseElements(Tail(toks), <<>>)
          [] h = Punct("{") -> ParseMembers(Tail(toks), <<>>, <<>>)

---------------------------------------------------------------------------
(* models/transcript.py: Transcript.from_file; __main__.py: read_transcript *)

NoFile      == [exists |-> FALSE, content |-> <<>>]
FileOf(txt) == [exists |-> TRUE,  content |-> txt]

FieldOr(d, k, default) == IF HasKey(d, k) THEN Get(d, k) ELSE default

HasField(d, k, types) == HasKey(d, k) /\ Get(d, k).t \in types

\* what pydantic accepts as a Word
ValidWord(d) ==
    /\ d.t = "dict"
    /\ HasField(d, "text", {"str"})
    /\ HasField(d, "start", {"int"})
    /\ HasField(d, "end", {"int"})
    /\ FieldOr(d, "confidence", JFloat(10)).t \in {"float", "int"}
    /\ FieldOr(d, "speaker", JNull).t \in {"null", "str"}
    /\ FieldOr(d, "channel", JNull).t \in {"null", "str"}

JsonToOpt(v) == IF v.t = "null" THEN None ELSE Some(v.s)

JsonToTenths(v) == IF v.t = "int" THEN v.n * 10 ELSE v.n

\* a validation that forgets the speaker
ModelValidateWord_nospeaker(d) ==
    NewWord(Get(d, "text").s, Get(d, "start").n, Get(d, "end").n,
            JsonToTenths(FieldOr(d, "confidence", JFloat(10))),
            None,
            JsonToOpt(FieldOr(d, "channel", JNull)))

\* Word.model_validate(word), for a word pydantic accepts
ModelValidateWord(d) ==
    NewWord(Get(d, "text").s, Get(d, "start").n, Get(d, "end").n,
            JsonToTenths(FieldOr(d, "confidence", JFloat(10))),
            JsonToOpt(FieldOr(d, "speaker", JNull)),
            JsonToOpt(FieldOr(d, "channel", JNull)))

NoTranscript == NewTranscript("", <<>>)

Returns(tr)         == [kind |-> "Transcript", value |-> tr, error |-> <<>>]
Raises(kind, error) == [kind |-> kind, value |-> NoTranscript, error |-> error]
NoLoaded            == [kind |-> "none", value |-> NoTranscript, error |-> <<>>]

\* the except clause: raise ValueError(f"Error parsing transcript file ...: {e}")
ErrorParsing(cause) ==
    Raises("ValueError", <<"Error parsing transcript file", cause>>)

\* Transcript.from_file(file_path): the Transcript, or the exception raised
from_file(f) ==
    IF ~f.exists
    THEN Raises("FileNotFoundError", <<"Transcript file not found">>)
    ELSE IF f.content = <<>>
    THEN Raises("ValueError", <<"Invalid JSON in transcript file">>)
    ELSE LET data == JsonParse(f.content).v
         IN  IF ~HasKey(data, "text")
             THEN ErrorParsing("Missing required field 'text'")
             ELSE IF ~HasKey(data, "words")
             THEN ErrorParsing("Missing required field 'words'")
             ELSE LET ws == Get(data, "words")
                  IN  IF \/ ws.t # "list"
                         \/ \E i \in 1..Len(ws.items) : ~ValidWord(ws.items[i])
                         \/ Get(data, "text").t # "str"
                      THEN ErrorParsing("validation error")
                      ELSE Returns(NewTranscript(
                               Get(data, "text").s,
                               [i \in 1..Len(ws.items) |->
                                   ModelValidateWord(ws.items[i])]))

ReadFailure(error) == [status |-> "failure", text |-> "", error |-> error]
ReadSuccess(text)  == [status |-> "success", text |-> text, error |-> <<>>]
NoRead             == [status |-> "none", text |-> "", error |-> <<>>]

\* a reader that takes the text with a default instead of testing for the key
read_transcript_get(f) ==
    IF ~f.exists \/ f.content = <<>>
    THEN ReadFailure(<<"Failed to load transcription">>)
    ELSE ReadSuccess(FieldOr(JsonParse(f.content).v, "text", JStr("")).s)

\* read_transcript(json_path): the dict it returns
read_transcript(f) ==
    IF ~f.exists
    THEN ReadFailure(<<"Failed to load transcription", "FileNotFoundError">>)
    ELSE IF f.content = <<>>
    THEN ReadFailure(<<"Failed to load transcription", "JSONDecodeError">>)
    ELSE LET data == JsonParse(f.content).v
         IN  IF HasKey(data, "text")
             THEN ReadSuccess(Get(data, "text").s)
             ELSE ReadFailure(<<"No 'text' field found in the JSON file">>)

---------------------------------------------------------------------------
(* A transcript file that is written, then read back *)

mainvars == <<path_kind, listing, recursive, language_code, json, pc,
              files_to_process, tasks, transcription_results, idx,
              overall_status, results, ret, log>>

\* transcribe_file is not running
Idle ==
    /\ path_kind = "missing"
    /\ listing = <<>>
    /\ recursive = FALSE
    /\ language_code = DEFAULT_LANGUAGE
    /\ json = [d \in Dirs |-> Absent]
    /\ pc = "idle"
    /\ files_to_process = <<>>
    /\ tasks = <<>>
    /\ transcription_results = <<>>
    /\ idx = 0
    /\ overall_status = "success"
    /\ results = <<>>
    /\ ret = NoRet
    /\ log = <<>>

\* the dict with only the keys of ks
RestrictDict(d, ks) ==
    LET keep == {i \in 1..Len(d.keys) : d.keys[i] \in ks}
        pos  == SelectSeq([i \in 1..Len(d.keys) |-> i], LAMBDA i : i \in keep)
    IN  JDict([i \in 1..Len(pos) |-> d.keys[pos[i]]],
              [i \in 1..Len(pos) |-> d.items[pos[i]]])

\* what may lie at the path before: nothing, an empty file, or the json of a
\* transcript with any of its top-level fields missing
FilesBefore(tr) ==
    {NoFile, FileOf(<<>>)}
        \cup { FileOf(JsonDump(RestrictDict(TranscriptModelDump(tr), ks))) :
                 ks \in SUBSET {"text", "words"} }

SavedInit ==
    /\ Idle
    /\ \E tr \in Transcripts : \E f \in FilesBefore(tr) :
         call = [op |-> "saved", transcript |-> tr, file |-> f,
                 dumped |-> FALSE, loaded |-> NoLoaded, read |-> NoRead]

\* with open(path, "w") as f: json.dump(transcript.model_dump(), f, indent=2)
DumpTranscript ==
    /\ call.op = "saved"
    /\ ~call.dumped
    /\ call' = [call EXCEPT
                  !.file = FileOf(JsonDump(TranscriptModelDump(call.transcript))),
                  !.dumped = TRUE,
                  !.loaded = NoLoaded,
                  !.read = NoRead]
    /\ UNCHANGED mainvars

FromFile ==
    /\ call.op = "saved"
    /\ call.loaded = NoLoaded
    /\ call' = [call EXCEPT !.loaded = from_file(call.file)]
    /\ UNCHANGED mainvars

ReadTranscript ==
    /\ call.op = "saved"
    /\ call.read = NoRead
    /\ call' = [call EXCEPT !.read = read_transcript(call.file)]
    /\ UNCHANGED mainvars

NextSaved ==
    \/ DumpTranscript
    \/ FromFile
    \/ ReadTranscript

SpecSaved == SavedInit /\ [][NextSaved]_vars

---------------------------------------------------------------------------
(* A direct call of AssemblyAIService.transcribe_audio *)

ServiceInit ==
    /\ path_kind = "missing"
    /\ listing \in Listings
    /\ recursive = FALSE
    /\ language_code = DEFAULT_LANGUAGE
    /\ json = [d \in Dirs |-> Absent]
    /\ pc = "idle"
    /\ files_to_process = <<>>
    /\ tasks = <<>>
    /\ transcription_results = <<>>
    /\ idx = 0
    /\ overall_status = "success"
    /\ results = <<>>
    /\ ret = NoRet
    /\ log = <<>>
    /\ \E e \in EntryUniverse : \E lang \in Langs :
         call = [op |-> "service", path |-> PathOf(e), lang |-> lang,
                 env |-> "", out |-> NoSvc]

TranscribeAudio ==
    /\ call.op = "service"
    /\ call.out = NoSvc
    /\ \E env \in Envs :
         call' = [call EXCEPT
                    !.env = env,
                    !.out = transcribe_audio(call.path, call.lang, env)]
    /\ UNCHANGED mainvars

NextService == TranscribeAudio

SpecService == ServiceInit /\ [][NextService]_vars

---------------------------------------------------------------------------
(* Vocabulary of the properties *)

Returned   == pc = "done"
Dispatched == files_to_process # <<>>
NFiles     == Len(files_to_process)

Raised(i)   == tasks[i].svc.kind = "raise"
Attempted(i) ==
    \E k \in 1..Len(log) :
        log[k] = At(i, ServiceCall(files_to_process[i], language_code))
OpenedBy(i, stage) ==
    \E k \in 1..Len(log) :
        log[k] = At(i, OpenForWrite(files_to_process[i], stage))

BatchStatuses == {"success", "partial_success", "failure"}
BatchMessages == {"Transcription complete.",
                  "Transcription complete with some failures.",
                  "Transcription failed for all files."}

\* the seven extensions of the specification, dot-stripped
SupportedExtensions == {"mp3", "mp4", "wav", "ogg", "flac", "m4a", "webm"}

HasSupportedExtension(name) ==
    LET ext == Lower(LStripDot(Suffix(name)))
    IN  Len(ext) = 1 /\ ext[1] \in SupportedExtensions

\* the media files a scan of the directory is specified to locate
SupportedMediaFiles ==
    { PathOf(listing[i]) : i \in
        { k \in 1..Len(listing) :
            /\ ~listing[k].isdir
            /\ HasSupportedExtension(listing[k].name)
            /\ (recursive \/ ~listing[k].sub) } }

---------------------------------------------------------------------------
(* C1 *)

\* C1: partial failure isolation. Whatever subset of the attempts raises,
\* every located file is attempted, transcribe_file returns a dict with
\* status, message and data, each raising file has the failure entry with the
\* exception's text in error, and the entry of every other file is its own
\* (its file, and never another file's exception).
C1_PartialFailureIsolation ==
    (Returned /\ Dispatched) =>
        /\ ret.status \in BatchStatuses
        /\ ret.message \in BatchMessages
        /\ Len(ret.data) = NFiles
        /\ \A i \in 1..NFiles :
             /\ Attempted(i)
             /\ Raised(i) =>
                  ret.data[i] = [file |-> files_to_process[i],
                                 status |-> "failure",
                                 error |-> <<tasks[i].svc.val>>]
             /\ ~Raised(i) =>
                  /\ ret.data[i].file = files_to_process[i]
                  /\ ret.data[i].status = "failure" =>
                       ret.data[i].error[1] = "Failed to write JSON to "

\* a returned batch of several files in which one attempt raised and one did not
C1_Witness ==
    /\ Returned
    /\ NFiles >= 2
    /\ \E i, j \in 1..NFiles : Raised(i) /\ ~Raised(j)

---------------------------------------------------------------------------
(* C2 *)

\* C2: a dispatched batch none of whose entries is a success returns status
\* "failure" with the message "Transcription failed for all files."
C2_AllFailedIsFailure ==
    (/\ Returned
     /\ Dispatched
     /\ \A i \in 1..Len(ret.data) : ret.data[i].status # "success")
        => /\ ret.status = "failure"
           /\ ret.message = "Transcription failed for all files."

---------------------------------------------------------------------------
(* C3 *)

\* C3: the returned status is "success" (message "Transcription complete.")
\* exactly when every entry of data is a success, and a batch in which
\* transcribe_audiofile succeeded for every file and every open for writing
\* was accepted returns "success".
C3_SuccessIffAllSucceed ==
    (Returned /\ Dispatched) =>
        /\ ret.status = "success"
             <=> \A i \in 1..Len(ret.data) : ret.data[i].status = "success"
        /\ ret.status = "success" => ret.message = "Transcription complete."
        /\ (\A i \in 1..NFiles :
              tasks[i].result = TaskSuccess /\ OpenedBy(i, "aggregate"))
             => ret.status = "success"

---------------------------------------------------------------------------
(* C4 *)

\* C4: a dispatched batch returns exactly one entry per located file, and the
\* i-th entry names the i-th located file.
C4_DataFollowsFileOrder ==
    (Returned /\ Dispatched) =>
        /\ Len(ret.data) = NFiles
        /\ \A i \in 1..NFiles : ret.data[i].file = files_to_process[i]

\* a returned batch of two different files whose attempts ended differently
C4_Witness ==
    /\ Returned
    /\ NFiles >= 2
    /\ files_to_process[1] # files_to_process[2]
    /\ tasks[1].result # tasks[2].result
    /\ Len(ret.data) = NFiles

---------------------------------------------------------------------------
(* C5 *)

\* C5: when input_path is neither file nor directory, or a single file with an
\* unsupported extension, or a directory holding no supported media file, no
\* transcription attempt is issued, no file is opened for writing, and the
\* returned status is "failure".
C5_PathFailuresDispatchNothing ==
    (\/ path_kind = "missing"
     \/ path_kind = "file" /\ ~HasSupportedExtension(InputFile.name)
     \/ path_kind = "dir" /\ SupportedMediaFiles = {})
        => /\ log = <<>>
           /\ tasks = <<>>
           /\ Returned => ret.status = "failure"

---------------------------------------------------------------------------
(* C6 *)

\* C6: a single regular file whose extension is one of the seven supported
\* ones is dispatched as the only file of the batch; the unsupported-format
\* failure is returned only for the other files.
C6_SupportedSingleFileDispatched ==
    (path_kind = "file" /\ pc # "start") =>
        IF HasSupportedExtension(InputFile.name)
        THEN files_to_process = <<InputFile>>
        ELSE /\ Returned
             /\ ret.status = "failure"
             /\ ret.message = "File <input_path> has an unsupported format."

---------------------------------------------------------------------------
(* C7 *)

\* C7: a directory scan locates exactly the regular files with one of the seven
\* extensions (case-insensitively), among the direct children when recursive
\* is false and in the whole subtree when it is true.
C7_DirectoryScanExact ==
    (path_kind = "dir" /\ pc # "start") =>
        SeqRange(files_to_process) = SupportedMediaFiles

---------------------------------------------------------------------------
(* C8 *)

\* C8: the located list holds no path twice.
C8_NoDuplicateLocated ==
    \A i, j \in 1..NFiles :
        i # j => files_to_process[i] # files_to_process[j]

---------------------------------------------------------------------------
(* C9 *)

\* C9: a file whose transcription step reported an error instead of a
\* transcript gets a failure entry carrying that error, and its sibling
\* transcript.json is never opened for writing.
C9_FailedTranscriptionNotWritten ==
    (Returned /\ Dispatched) =>
        \A i \in 1..NFiles :
            tasks[i].svc.kind = "str" =>
                /\ ret.data[i].status = "failure"
                /\ ret.data[i].error = <<tasks[i].svc.val>>
                /\ ~OpenedBy(i, "task")
                /\ ~OpenedBy(i, "aggregate")

---------------------------------------------------------------------------
(* C10 *)

\* C10: of the files whose transcription succeeded, one whose write fails
\* gets the failure entry "write failed to <json_path>: <cause>", one whose
\* write is accepted gets a success entry with its json_path, and the batch
\* goes on to the files after it.
C10_WriteFailureIsolated ==
    (Returned /\ Dispatched) =>
        /\ Len(ret.data) = NFiles
        /\ \A i \in 1..NFiles :
             tasks[i].result = TaskSuccess =>
                IF OpenedBy(i, "aggregate")
                THEN ret.data[i] = [file |-> files_to_process[i],
                                    status |-> "success",
                                    json_path |-> files_to_process[i].parent]
                ELSE ret.data[i] = [file |-> files_to_process[i],
                                    status |-> "failure",
                                    error |-> <<"write failed to ",
                                                files_to_process[i].parent,
                                                ": ", "OSError">>]

---------------------------------------------------------------------------
(* C11 *)

SameDirectory(i, j) ==
    files_to_process[i].parent = files_to_process[j].parent

\* C11: when a batch holds two or more files of one directory, whose
\* transcriptions succeed and whose writes are accepted, every one of them is
\* reported as a success with the shared <directory>/transcript.json, and after
\* the batch that file holds the complete transcript of the last of them,
\* never an empty content.
C11_SharedOutputHoldsLastTranscript ==
    (/\ Returned
     /\ Dispatched
     /\ \A i \in 1..NFiles :
          tasks[i].result = TaskSuccess /\ OpenedBy(i, "aggregate"))
        => \A i, j \in 1..NFiles :
             (i < j /\ SameDirectory(i, j)) =>
                /\ ret.data[i].status = "success"
                /\ ret.data[j].status = "success"
                /\ ret.data[i].json_path = ret.data[j].json_path
                /\ json[files_to_process[j].parent].state = "full"
                /\ \E k \in 1..NFiles :
                     /\ SameDirectory(k, j)
                     /\ \A m \in 1..NFiles : SameDirectory(m, j) => m <= k
                     /\ json[files_to_process[j].parent]
                            = Written(files_to_process[k])

---------------------------------------------------------------------------
(* C12 *)

ServiceCallsAt(i) ==
    {k \in 1..Len(log) : log[k].task = i /\ log[k].event.ev = "service"}

\* C12: in one invocation transcribe_audio is called at most once for each
\* position of the located list, exactly once by the time transcribe_file
\* returns, and each call carries that file's path and the caller's
\* language_code unchanged.
C12_OneCallPerFileLanguageForwarded ==
    \A i \in 1..NFiles :
        /\ Cardinality(ServiceCallsAt(i)) <= 1
        /\ Returned => Cardinality(ServiceCallsAt(i)) = 1
        /\ \A k \in ServiceCallsAt(i) :
             /\ log[k].event.file = files_to_process[i]
             /\ log[k].event.lang = language_code

\* a returned batch of several files, called with a language that is not the
\* default, one of whose attempts failed
C12_Witness ==
    /\ Returned
    /\ NFiles >= 2
    /\ language_code # DEFAULT_LANGUAGE
    /\ \E i \in 1..NFiles : tasks[i].svc.kind \in {"raise", "str"}
    /\ \A i \in 1..NFiles : Cardinality(ServiceCallsAt(i)) = 1

---------------------------------------------------------------------------
(* C13 *)

\* C13: round trip. A Transcript whose model_dump was written as json and
\* that is then loaded with Transcript.from_file comes back equal.
C13_RoundTrip ==
    (call.op = "saved" /\ call.dumped /\ call.loaded # NoLoaded)
        => call.loaded = Returns(call.transcript)

\* a transcript of several words, with and without a speaker, read back
C13_Witness ==
    /\ call.op = "saved"
    /\ call.dumped
    /\ call.loaded.kind = "Transcript"
    /\ Len(call.transcript.words) >= 2
    /\ \E i, j \in 1..Len(call.transcript.words) :
         /\ call.transcript.words[i].speaker.some
         /\ ~call.transcript.words[j].speaker.some
         /\ call.transcript.words[j].confidence # 10

---------------------------------------------------------------------------
(* C14 *)

\* the file is a json object without the top-level key k
FileLacks(k) ==
    /\ call.file.exists
    /\ call.file.content # <<>>
    /\ ~HasKey(JsonParse(call.file.content).v, k)

Names(error, field) ==
    /\ error # <<>>
    /\ error[Len(error)] = IF field = "text"
                           THEN "Missing required field 'text'"
                           ELSE "Missing required field 'words'"

\* C14: on a saved file without the top-level text field read_transcript
\* returns status "failure" with the error naming the missing 'text' field;
\* on a file without text or without words Transcript.from_file raises a
\* ValueError that names the missing field, and no other exception.
C14_MissingFieldReported ==
    call.op = "saved" =>
        /\ (FileLacks("text") /\ call.read # NoRead) =>
              /\ call.read.status = "failure"
              /\ call.read.error = <<"No 'text' field found in the JSON file">>
        /\ (FileLacks("text") /\ call.loaded # NoLoaded) =>
              /\ call.loaded.kind = "ValueError"
              /\ Names(call.loaded.error, "text")
        /\ (~FileLacks("text") /\ FileLacks("words") /\ call.loaded # NoLoaded) =>
              /\ call.loaded.kind = "ValueError"
              /\ Names(call.loaded.error, "words")

\* both readers have answered on a file that holds words but no text
C14_Witness ==
    /\ call.op = "saved"
    /\ FileLacks("text")
    /\ ~FileLacks("words")
    /\ call.read.status = "failure"
    /\ call.loaded.kind = "ValueError"

---------------------------------------------------------------------------
(* C15 *)

\* the message validate_audio_file is documented to give for the path, ""
\* when it accepts it
Rejection(p, env) ==
    IF \A i \in 1..Len(listing) : PathOf(listing[i]) # p
    THEN "Audio file not found"
    ELSE IF \E i \in 1..Len(listing) : PathOf(listing[i]) = p /\ listing[i].isdir
    THEN "Path is not a file"
    ELSE IF ~HasSupportedExtension(p.name)
    THEN "Unsupported audio format"
    ELSE IF env = "unreadable"
    THEN "File is not readable"
    ELSE ""

\* C15: transcribe_audio returns its failures. When validate_audio_file
\* rejects the path (missing, not a file, unsupported extension, unreadable)
\* the validation message is returned and no remote call is made; when the
\* remote transcribe call raises, "Error transcribing file: <cause>" is returned.
C15_FailuresAreReturned ==
    (call.op = "service" /\ call.out # NoSvc) =>
        /\ Rejection(call.path, call.env) # "" =>
              /\ call.out.kind = "str"
              /\ call.out.val = Rejection(call.path, call.env)
              /\ ~call.out.remote
        /\ (Rejection(call.path, call.env) = "" /\ call.env = "remote_raises") =>
              /\ call.out.kind = "str"
              /\ call.out.val = "Error transcribing file"
              /\ call.out.remote

\* the call returned for a directory whose name ends in .mp3
C15_Witness ==
    /\ call.op = "service"
    /\ call.out # NoSvc
    /\ Rejection(call.path, call.env) = "Path is not a file"
    /\ call.out.kind = "str"

---------------------------------------------------------------------------
(* C16 *)

\* C16: every attempt is issued without waiting for another one to complete:
\* while the batch is being transcribed, an attempt that has not started can
\* start as soon as the attempts before it have started, whether or not they
\* have finished (so that two attempts can be in progress at once).
C16_AttemptsDoNotWait ==
    \A i \in 1..NFiles :
        (/\ pc = "gather"
         /\ tasks[i].pc = "pending"
         /\ \A j \in 1..(i - 1) : tasks[j].pc # "pending")
            => ENABLED StartTask(i)

---------------------------------------------------------------------------
(* C17 *)

\* the state of the specification's per-file machine the i-th file is in
FileState(i) ==
    IF i <= Len(results)
    THEN IF results[i].status = "success" THEN "WriteSucceeded"
         ELSE IF results[i].error[1] = "Failed to write JSON to "
         THEN "WriteFailed"
         ELSE "TranscribeFailed"
    ELSE IF i > Len(tasks) \/ tasks[i].pc = "pending" THEN "Pending"
    ELSE IF tasks[i].svc = NoSvc THEN "Transcribing"
    ELSE IF tasks[i].svc.kind = "transcript" THEN "TranscribeSucceeded"
    ELSE "TranscribeFailed"

ForwardStep(from, to) ==
    \/ to = from
    \/ from = "Pending" /\ to = "Transcribing"
    \/ from = "Transcribing" /\ to \in {"TranscribeFailed", "TranscribeSucceeded"}
    \/ from = "TranscribeSucceeded" /\ to \in {"WriteSucceeded", "WriteFailed"}

\* C17: every file only moves forward through Pending, Transcribing,
\* TranscribeFailed or TranscribeSucceeded, and from TranscribeSucceeded to
\* WriteSucceeded or WriteFailed; TranscribeFailed, WriteSucceeded and
\* WriteFailed are never left, and no write step starts from TranscribeFailed.
C17_FilesOnlyMoveForward ==
    [][\A i \in 1..Len(files_to_process') :
          ForwardStep(FileState(i), FileState(i)')]_vars

---------------------------------------------------------------------------
(* C18 *)

Terminal(state) == state \in {"TranscribeFailed", "WriteSucceeded", "WriteFailed"}

\* every position of files_to_process has its own entry in data, in a
\* terminal state, and no coroutine is left pending or running
EveryFileSettled ==
    /\ Len(ret.data) = NFiles
    /\ ret.data = results
    /\ \A i \in 1..NFiles :
         /\ ret.data[i].file = files_to_process[i]
         /\ tasks[i].pc = "done"
         /\ Terminal(FileState(i))

\* C18: when every step that can be taken eventually is (every transcription
\* call returns or raises), transcribe_file eventually returns, and whenever
\* it has returned after a dispatch every located file is in a terminal state
\* with exactly one entry in data.
C18_BatchRunsToCompletion ==
    /\ <>Returned
    /\ [](Returned /\ Dispatched => EveryFileSettled)

\* a returned batch of two files, one failed in transcription by an exception
\* and one failed in the write
C18_Witness ==
    /\ Returned
    /\ NFiles = 2
    /\ EveryFileSettled
    /\ \E i, j \in 1..NFiles :
         /\ Raised(i)
         /\ FileState(i) = "TranscribeFailed"
         /\ FileState(j) = "WriteFailed"

---------------------------------------------------------------------------
(* C19 *)

\* C19: an entry of data has status "success" only if the file's
\* transcription produced a transcript and the write to the reported
\* json_path completed; every other entry has status "failure", an error
\* field and no json_path.
C19_EntryStatusJustified ==
    \A i \in 1..Len(results) :
        LET e == results[i]
        IN  IF e.status = "success"
            THEN /\ tasks[i].svc.kind = "transcript"
                 /\ "json_path" \in DOMAIN e
                 /\ e.json_path = files_to_process[i].parent
                 /\ OpenedBy(i, "aggregate")
            ELSE /\ e.status = "failure"
                 /\ "error" \in DOMAIN e
                 /\ "json_path" \notin DOMAIN e

\* a returned batch holding an entry for a raised exception, an entry for a
\* service error message and an entry for a transcript whose write failed
C19_Witness ==
    /\ Returned
    /\ Dispatched
    /\ \E i \in 1..Len(ret.data) : Raised(i)
    /\ \E i \in 1..Len(ret.data) :
         /\ tasks[i].svc.kind = "transcript"
         /\ ret.data[i].status = "failure"
         /\ ret.data[i].error[1] = "Failed to write JSON to "

---------------------------------------------------------------------------
(* C20 *)

\* how many times the run opened the transcript.json beside file i for writing
OpensFor(i) ==
    Cardinality({k \in 1..Len(log) :
                    /\ log[k].task = i
                    /\ log[k].event.ev = "open"
                    /\ log[k].event.file = files_to_process[i]})

\* C20: for each file whose transcription step succeeded, the run has opened
\* its transcript.json for writing exactly once, the transcription step and
\* the aggregation step taken together.
C20_OutputOpenedOnce ==
    \A i \in 1..Len(tasks) :
        (tasks[i].pc = "done" /\ tasks[i].result = TaskSuccess)
            => OpensFor(i) = 1

---------------------------------------------------------------------------
(* C21 *)

\* C21: every path a directory scan locates is a regular file; a
\* subdirectory whose name ends in a supported extension is never located,
\* never handed to the transcription service and never reported in data.
C21_OnlyRegularFilesLocated ==
    InputIsDir =>
        /\ \A i \in 1..NFiles : IsFile(files_to_process[i])
        /\ \A k \in 1..Len(log) : IsFile(log[k].event.file)
        /\ \A i \in 1..Len(ret.data) : IsFile(ret.data[i].file)

====
